---- MODULE Spec2Model ----
(***************************************************************************)
(* Model of the thunder frontend server (src/src/serve/frontend.rs): the   *)
(* router, the cookie-token auth middleware, the login handlers and the    *)
(* CGI gateway handler get_pan_thunder_com.                                *)
(*                                                                         *)
(* Text (header values, URIs, CGI output) is a sequence of one-character   *)
(* strings, so that split, trim, starts_with, contains and slicing are     *)
(* computed the way the Rust code computes them.                           *)
(***************************************************************************)
EXTENDS Naturals, Sequences, FiniteSets

VARIABLES
    CHECK_AUTH,  \* the configured password: None or Some(password); set once at start
    now,         \* the clock
    issued,      \* the times at which generate_token returned a token
    pc,          \* where the request in hand stands: idle, next, spawned, exited, done
    request,     \* the request in hand
    decision,    \* what auth_middleware decided for it: Allow, Deny, or none
    generated,   \* what generate_token returned to post_login: None, Ok(token) or Err
    child,       \* the process spawned for it: environment, stdout, exit status
    response,    \* the response returned for it
    spawned,     \* the number of processes spawned for it
    task         \* the gateway handler's tasks in flight, at the grain of pipe reads and writes

vars == <<CHECK_AUTH, now, issued, pc, request, decision, generated, child, response, spawned,
          task>>

(***************************************************************************)
(* Bounds of the model.                                                    *)
(***************************************************************************)
\* Largest value of the clock (abstract time units).
MaxClock == 2
\* Largest number of lines in a child's output.
MaxLines == 3
\* Largest number of cookies in a Cookie header.
MaxCookies == 2
\* Largest number of headers in a request to the gateway.
MaxHeaders == 2
\* Largest number of bytes in a request body.
MaxBody == 2
\* Number of bytes a pipe holds before a write to it blocks.
PipeCapacity == 1
\* Number of requests the gateway handles at the same time.
MaxTasks == 2

(***************************************************************************)
(* Option values.                                                          *)
(***************************************************************************)
None == <<>>
Some(x) == <<x>>
Unwrap(o) == o[1]

(***************************************************************************)
(* str operations of the Rust standard library, on character sequences.    *)
(***************************************************************************)
\* str::starts_with
StartsWith(s, p) == Len(s) >= Len(p) /\ SubSeq(s, 1, Len(p)) = p

\* str::contains
Contains(s, p) == \E i \in 1..(Len(s) + 1) :
                     i + Len(p) - 1 <= Len(s) /\ SubSeq(s, i, i + Len(p) - 1) = p

\* Index of the first occurrence of ch in s, 0 when there is none.
Find(s, ch) == IF \E i \in 1..Len(s) : s[i] = ch
               THEN CHOOSE i \in 1..Len(s) : s[i] = ch /\ \A j \in 1..(i - 1) : s[j] # ch
               ELSE 0

\* str::split(ch), collected: n separators give n + 1 pieces.
RECURSIVE Split(_, _)
Split(s, ch) == IF Find(s, ch) = 0
                THEN <<s>>
                ELSE <<SubSeq(s, 1, Find(s, ch) - 1)>>
                       \o Split(SubSeq(s, Find(s, ch) + 1, Len(s)), ch)

\* str::split_once(ch)
SplitOnce(s, ch) == IF Find(s, ch) = 0
                    THEN None
                    ELSE Some(<<SubSeq(s, 1, Find(s, ch) - 1),
                                SubSeq(s, Find(s, ch) + 1, Len(s))>>)

Whitespace == {" ", "\t"}

\* A byte that is neither visible ASCII nor valid UTF-8.
InvalidByte == "0xFF"

\* HeaderValue::to_str().unwrap_or_default(): the empty text when the value
\* holds a byte that is not visible ASCII.
ToStrOrDefault(v) == IF InvalidByte \in {v[i] : i \in 1..Len(v)} THEN <<>> ELSE v

\* str::trim
RECURSIVE TrimStart(_)
TrimStart(s) == IF s # <<>> /\ Head(s) \in Whitespace THEN TrimStart(Tail(s)) ELSE s

RECURSIVE TrimEnd(_)
TrimEnd(s) == IF s # <<>> /\ s[Len(s)] \in Whitespace
              THEN TrimEnd(SubSeq(s, 1, Len(s) - 1))
              ELSE s

Trim(s) == TrimEnd(TrimStart(s))

\* Iterator::filter over a collected sequence.
RECURSIVE FilterNonEmpty(_)
FilterNonEmpty(ss) == IF ss = <<>> THEN <<>>
                      ELSE IF Head(ss) = <<>> THEN FilterNonEmpty(Tail(ss))
                      ELSE <<Head(ss)>> \o FilterNonEmpty(Tail(ss))

Upper == <<"A","B","C","D","E","F","G","H","I","J","K","L","M","N","O","P","Q","R","S","T","U","V","W","X","Y","Z">>
Lower == <<"a","b","c","d","e","f","g","h","i","j","k","l","m","n","o","p","q","r","s","t","u","v","w","x","y","z">>

\* u8::to_ascii_lowercase
LowerChar(c) == IF \E i \in 1..26 : Upper[i] = c
                THEN Lower[CHOOSE i \in 1..26 : Upper[i] = c]
                ELSE c

\* str::to_ascii_lowercase
to_ascii_lowercase(s) == [i \in 1..Len(s) |-> LowerChar(s[i])]

\* Range of a sequence.
Range(s) == {s[i] : i \in 1..Len(s)}

(***************************************************************************)
(* Constants of the program.                                               *)
(***************************************************************************)
ACCESS_COOKIE == <<"a","c","c","e","s","s","_","t","o","k","e","n">>

\* crate::constant::SYNOPKG_WEB_UI_HOME, the mount prefix, shortened to "/h/".
SYNOPKG_WEB_UI_HOME == <<"/","h","/">>

\* super::auth::EXP, the token lifetime, in the model's time units.
EXP == 2

LOGIN_PATH == <<"/","l","o","g","i","n">>
WEBMAN_LOGIN_PATH == <<"/","w","e","b","m","a","n","/","l","o","g","i","n",".","c","g","i">>

JSON_STUB == <<"{\"SynoToken\", \"\"}">>
LOGIN_HTML == <<"login.html">>

Digits == <<"0","1","2","3","4","5","6","7","8","9">>
\* Display of a small unsigned integer.
Digit(n) == Digits[n + 1]

(***************************************************************************)
(* Responses.  kind names the constructor that built the response:         *)
(* "aborted" is a handler that panicked, for which no response is written. *)
(***************************************************************************)
Resp(kind, status, location, set_cookie, headers, body) ==
    [kind |-> kind, status |-> status, location |-> location,
     set_cookie |-> set_cookie, headers |-> headers, body |-> body]

NoResponse == Resp("none", 0, None, None, <<>>, <<>>)

\* axum::response::Redirect::to: 303 See Other.
RedirectTo(uri) == Resp("redirect", 303, Some(uri), None, <<>>, <<>>)

\* axum::response::Redirect::temporary: 307 Temporary Redirect.
RedirectTemporary(uri) == Resp("redirect", 307, Some(uri), None, <<>>, <<>>)

\* super::error::AppError as a response: a 5xx with a generic message.
AppError == Resp("error", 500, None, None, <<>>, <<>>)

\* A panic in the handler: the task unwinds and the connection is dropped.
Aborted == Resp("aborted", 0, None, None, <<>>, <<>>)

(***************************************************************************)
(* Requests.  headers is the header list in arrival order, as pairs        *)
(* <<name, value>>; form is the password field of a login form.            *)
(***************************************************************************)
Req(method, path, query, headers, form, at) ==
    [method |-> method, path |-> path, query |-> query,
     headers |-> headers, form |-> form, at |-> at]

NoRequest == Req(<<>>, <<>>, None, <<>>, None, 0)

GET == <<"G","E","T">>
POST == <<"P","O","S","T">>

COOKIE == <<"c","o","o","k","i","e">>

\* HeaderMap::get: the first value stored under the (lower-case) name.
RECURSIVE HeaderGet(_, _)
HeaderGet(headers, name) ==
    IF headers = <<>> THEN None
    ELSE IF to_ascii_lowercase(Head(headers)[1]) = name THEN Some(Head(headers)[2])
    ELSE HeaderGet(Tail(headers), name)

(***************************************************************************)
(* The token collaborator (super::auth::token).  A token generated at time *)
(* t is the text "j<t>"; it verifies when it was generated by this server  *)
(* (issued) and its lifetime EXP has not run out.                          *)
(***************************************************************************)
Tok(t) == <<"j", Digit(t)>>

verifier(token, at) == \E t \in issued : token = Tok(t) /\ at < t + EXP

(***************************************************************************)
(* Auth middleware and login.                                              *)
(***************************************************************************)
\* The segments of a Cookie header value: split on ';', empty pieces dropped.
CookieSegments(h) == FilterNonEmpty(Split(h, ";"))

\* SegmentAllows as it would be with token[0], the name, handed to the verifier.
SegmentAllowsTokenAtIndexZero(c, at) ==
    /\ StartsWith(c, ACCESS_COOKIE)
    /\ Len(Split(c, "=")) = 2
    /\ verifier(Split(c, "=")[1], at)

\* One pass of the loop body: whether segment c makes the middleware forward.
SegmentAllows(c, at) ==
    /\ StartsWith(c, ACCESS_COOKIE)
    /\ Len(Split(c, "=")) = 2
    /\ verifier(Split(c, "=")[2], at)

\* The text of the Cookie header of req, None when it has none.
CookieText(req) ==
    IF HeaderGet(req.headers, COOKIE) = None THEN None
    ELSE Some(ToStrOrDefault(Unwrap(HeaderGet(req.headers, COOKIE))))

\* auth_allow as it would be without the early return for an unset password.
auth_allow_cookie_only(req) ==
    /\ CookieText(req) # None
    /\ \E i \in 1..Len(CookieSegments(Unwrap(CookieText(req)))) :
          SegmentAllows(Trim(CookieSegments(Unwrap(CookieText(req)))[i]), req.at)

\* Whether auth_middleware runs the next handler for req.
auth_allow(req) ==
    \/ CHECK_AUTH = None
    \/ /\ CookieText(req) # None
       /\ \E i \in 1..Len(CookieSegments(Unwrap(CookieText(req)))) :
             SegmentAllows(Trim(CookieSegments(Unwrap(CookieText(req)))[i]), req.at)

\* authentication as it would be if the configured password were never compared.
authentication_any_password(auth_password) == TRUE

\* fn authentication
authentication(auth_password) ==
    IF CHECK_AUTH # None THEN auth_password = Unwrap(CHECK_AUTH) ELSE TRUE

\* The Set-Cookie value post_login formats.
SetCookieValue(token) ==
    ACCESS_COOKIE \o <<"=">> \o token
      \o <<";"," ","M","a","x","-","A","g","e","=">> \o <<Digit(EXP)>>
      \o <<";"," ","P","a","t","h","=","/",";"," ","H","t","t","p","O","n","l","y">>

\* The response post_login builds when it was given a token.
LoginSuccess(token) ==
    Resp("login", 303, Some(SYNOPKG_WEB_UI_HOME), Some(SetCookieValue(token)), <<>>, <<>>)

(***************************************************************************)
(* Router (start_server).                                                  *)
(***************************************************************************)
\* The handler the router picks, "" when the method is not routed.
Route(req) ==
    IF req.path = WEBMAN_LOGIN_PATH
    THEN (IF req.method = GET THEN "get_webman_login" ELSE "")
    ELSE IF req.path = LOGIN_PATH
    THEN (IF req.method = GET THEN "get_login"
          ELSE IF req.method = POST THEN "post_login" ELSE "")
    ELSE "get_pan_thunder_com"

\* The routes that sit under route_layer(auth_middleware).
Protected(req) == Route(req) \in {"get_webman_login", "get_pan_thunder_com"}

(***************************************************************************)
(* Result values.                                                          *)
(***************************************************************************)
Ok(x) == <<"Ok", x>>
Err == <<"Err">>

NoChild == [env |-> <<>>, stdout |-> <<>>, exit |-> 0, captured |-> FALSE]

(***************************************************************************)
(* One task of the gateway handler, from the spawn to the response, with   *)
(* the pipes between the handler and the child.  Each request is served by *)
(* its own task; child, the pipes and the captured output are locals of    *)
(* get_pan_thunder_com.                                                    *)
(***************************************************************************)
Tasks == 1..MaxTasks

\* A pipe: the bytes in its buffer, and whether its write end and its read
\* end are open.
NewPipe == [buf |-> <<>>, writer |-> TRUE, reader |-> TRUE]
NoPipe == [buf |-> <<>>, writer |-> FALSE, reader |-> FALSE]

\* What the executable does with its pipes: it reads its input to the end and
\* then writes its output, or writes its output and then reads its input to
\* the end, or exits without reading; out is the output it writes, None when
\* it writes an empty header block and then the input it read.
Program(order, out) == [order |-> order, out |-> out]
NoProgram == Program("exit", Some(<<>>))

\* The child process: where it stands, the bytes it has read, whether it has
\* read the end of its input, the bytes it has still to write, the bytes it
\* has written, and its exit status.
NoProcess ==
    [pc |-> "none", input |-> <<>>, eof |-> FALSE, todo |-> <<>>, written |-> <<>>,
     exit |-> "none"]

\* A task before the spawn.  sent holds the bytes of the body written to the
\* child's stdin, captured the bytes read from its stdout; failure names the
\* step that failed.
IdleTask ==
    [pc |-> "idle", body |-> None, program |-> NoProgram, spawns |-> 0,
     stdin |-> NoPipe, stdout |-> NoPipe, sent |-> <<>>, proc |-> NoProcess,
     captured |-> <<>>, response |-> NoResponse, failure |-> "none"]

(***************************************************************************)
(* Initial state: start_server has set CHECK_AUTH from the configuration.  *)
(***************************************************************************)
Passwords == {"pw"}

Init ==
    /\ CHECK_AUTH \in {None} \cup {Some(p) : p \in Passwords}
    /\ now = 0
    /\ issued = {}
    /\ pc = "idle"
    /\ request = NoRequest
    /\ decision = "none"
    /\ generated = None
    /\ child = NoChild
    /\ response = NoResponse
    /\ spawned = 0
    /\ task = [i \in Tasks |-> IdleTask]

\* A request is taken when none is in hand.
Ready == pc = "idle"

\* The clock advances between requests.
Tick ==
    /\ Ready
    /\ now < MaxClock
    /\ now' = now + 1
    /\ UNCHANGED <<task, CHECK_AUTH, issued, pc, request, decision, generated, child, response,
                   spawned>>

\* GET /login
get_login(Requests) ==
    /\ Ready
    /\ \E r \in Requests :
          /\ Route(r) = "get_login"
          /\ request' = [r EXCEPT !.at = now]
    /\ response' = Resp("html", 200, None, None, <<>>, LOGIN_HTML)
    /\ pc' = "done"
    /\ decision' = "none"
    /\ generated' = None
    /\ child' = NoChild
    /\ spawned' = 0
    /\ UNCHANGED <<task, CHECK_AUTH, now, issued>>

\* POST /login.  generate_token either returns the token for the current time
\* or fails.
post_login(Requests) ==
    /\ Ready
    /\ \E r \in Requests :
          /\ Route(r) = "post_login"
          /\ r.form # None
          /\ request' = [r EXCEPT !.at = now]
          /\ IF authentication(Unwrap(r.form))
             THEN \/ /\ generated' = Ok(Tok(now))
                     /\ issued' = issued \cup {now}
                     /\ response' = LoginSuccess(Tok(now))
                  \/ /\ generated' = Err
                     /\ issued' = issued
                     /\ response' = RedirectTo(LOGIN_PATH)
             ELSE /\ generated' = None
                  /\ issued' = issued
                  /\ response' = RedirectTo(LOGIN_PATH)
    /\ pc' = "done"
    /\ decision' = "none"
    /\ child' = NoChild
    /\ spawned' = 0
    /\ UNCHANGED <<task, CHECK_AUTH, now>>

\* The auth middleware on a protected route: it runs the next handler or
\* answers with a redirect to /login.
auth_middleware(Requests) ==
    /\ Ready
    /\ \E r \in Requests :
          /\ Protected(r)
          /\ request' = [r EXCEPT !.at = now]
          /\ IF auth_allow([r EXCEPT !.at = now])
             THEN /\ decision' = "Allow"
                  /\ pc' = "next"
                  /\ response' = NoResponse
             ELSE /\ decision' = "Deny"
                  /\ pc' = "done"
                  /\ response' = RedirectTo(LOGIN_PATH)
    /\ generated' = None
    /\ child' = NoChild
    /\ spawned' = 0
    /\ UNCHANGED <<task, CHECK_AUTH, now, issued>>

\* GET /webman/login.cgi
get_webman_login ==
    /\ pc = "next"
    /\ Route(request) = "get_webman_login"
    /\ response' = Resp("json", 200, None, None, <<>>, JSON_STUB)
    /\ pc' = "done"
    /\ UNCHANGED <<task, CHECK_AUTH, now, issued, request, decision, generated, child, spawned>>

(***************************************************************************)
(* The gateway handler get_pan_thunder_com: environment of the child.      *)
(***************************************************************************)
\* Names of the variables Command::env is called with.
SERVER_SOFTWARE == <<"S","E","R","V","E","R","_","S","O","F","T","W","A","R","E">>
SERVER_PROTOCOL == <<"S","E","R","V","E","R","_","P","R","O","T","O","C","O","L">>
HTTP_HOST == <<"H","T","T","P","_","H","O","S","T">>
GATEWAY_INTERFACE == <<"G","A","T","E","W","A","Y","_","I","N","T","E","R","F","A","C","E">>
REQUEST_METHOD == <<"R","E","Q","U","E","S","T","_","M","E","T","H","O","D">>
QUERY_STRING == <<"Q","U","E","R","Y","_","S","T","R","I","N","G">>
REQUEST_URI == <<"R","E","Q","U","E","S","T","_","U","R","I">>
PATH_INFO == <<"P","A","T","H","_","I","N","F","O">>
SCRIPT_NAME == <<"S","C","R","I","P","T","_","N","A","M","E">>
SCRIPT_FILENAME == <<"S","C","R","I","P","T","_","F","I","L","E","N","A","M","E">>
SERVER_PORT == <<"S","E","R","V","E","R","_","P","O","R","T">>
REMOTE_ADDR == <<"R","E","M","O","T","E","_","A","D","D","R">>
SERVER_NAME == <<"S","E","R","V","E","R","_","N","A","M","E">>
CONTENT_TYPE == <<"C","O","N","T","E","N","T","_","T","Y","P","E">>
CONTENT_LENGTH == <<"C","O","N","T","E","N","T","_","L","E","N","G","T","H">>

HOST == <<"h","o","s","t">>
CONTENT_TYPE_HEADER == <<"c","o","n","t","e","n","t","-","t","y","p","e">>
CONTENT_LENGTH_HEADER == <<"c","o","n","t","e","n","t","-","l","e","n","g","t","h">>
HTTP_PREFIX == <<"H","T","T","P","_">>
PROXY == <<"P","R","O","X","Y">>

\* conf.0.bind.port().to_string()
ServerPort == <<"8","0">>

\* Display of the request's Uri: the path, then '?' and the query when present.
UriToString(req) ==
    IF req.query = None THEN req.path ELSE req.path \o <<"?">> \o Unwrap(req.query)

\* Option<&str>::unwrap_or_default
UnwrapOrDefault(o) == IF o = None THEN <<>> ELSE Unwrap(o)

\* fn extract_real_host
extract_real_host(req) ==
    IF HeaderGet(req.headers, HOST) = None THEN <<>>
    ELSE ToStrOrDefault(Unwrap(HeaderGet(req.headers, HOST)))

\* Command::env: the variable k is set to v, replacing an earlier value.
SetEnv(env, k, v) == [x \in DOMAIN env \cup {k} |-> IF x = k THEN v ELSE env[x]]

\* The variables set before the header loop, in the order of the calls.
FixedEnv(req) ==
    LET e0  == [x \in {} |-> <<>>]
        e1  == SetEnv(e0, SERVER_SOFTWARE, <<"r","u","s","t">>)
        e2  == SetEnv(e1, SERVER_PROTOCOL, <<"H","T","T","P","/","1",".","1">>)
        e3  == SetEnv(e2, HTTP_HOST, extract_real_host(req))
        e4  == SetEnv(e3, GATEWAY_INTERFACE, <<"C","G","I","/","1",".","1">>)
        e5  == SetEnv(e4, REQUEST_METHOD, req.method)
        e6  == SetEnv(e5, QUERY_STRING, UnwrapOrDefault(req.query))
        e7  == SetEnv(e6, REQUEST_URI, UriToString(req))
        e8  == SetEnv(e7, PATH_INFO, req.path)
        e9  == SetEnv(e8, SCRIPT_NAME, <<".">>)
        e10 == SetEnv(e9, SCRIPT_FILENAME, req.path)
        e11 == SetEnv(e10, SERVER_PORT, ServerPort)
        e12 == SetEnv(e11, REMOTE_ADDR, extract_real_host(req))
    IN  SetEnv(e12, SERVER_NAME, extract_real_host(req))

\* One pass of the header loop as it would be with the name in the case the
\* client sent it.
HeaderEnvKeepingCase(env, name, value) ==
    IF name = PROXY THEN env
    ELSE IF value # <<>>
    THEN SetEnv(env, HTTP_PREFIX \o name, ToStrOrDefault(value))
    ELSE env

\* One pass of the header loop: k is the lower-cased name, compared with "PROXY".
HeaderEnv(env, name, value) ==
    IF to_ascii_lowercase(name) = PROXY THEN env
    ELSE IF value # <<>>
    THEN SetEnv(env, HTTP_PREFIX \o to_ascii_lowercase(name), ToStrOrDefault(value))
    ELSE env

\* The header loop, over the first n headers.
RECURSIVE HeaderLoop(_, _, _)
HeaderLoop(env, headers, n) ==
    IF n = 0 THEN env
    ELSE HeaderEnv(HeaderLoop(env, headers, n - 1), headers[n][1], headers[n][2])

\* CONTENT_TYPE and CONTENT_LENGTH, set from the headers of those names.
ContentEnv(env, req) ==
    LET ct == HeaderGet(req.headers, CONTENT_TYPE_HEADER)
        cl == HeaderGet(req.headers, CONTENT_LENGTH_HEADER)
        e1 == IF ct = None THEN env ELSE SetEnv(env, CONTENT_TYPE, ToStrOrDefault(Unwrap(ct)))
    IN  IF cl = None THEN e1 ELSE SetEnv(e1, CONTENT_LENGTH, ToStrOrDefault(Unwrap(cl)))

\* The environment the child is spawned with.
CgiEnv(req) == ContentEnv(HeaderLoop(FixedEnv(req), req.headers, Len(req.headers)), req)

\* The scope test of the handler: the URI, as text, contains the mount prefix.
InScope(req) == Contains(UriToString(req), SYNOPKG_WEB_UI_HOME)

\* The handler up to the spawn: out of scope it redirects to the mount
\* prefix; in scope it reads the configured environment, which may fail,
\* builds the command and spawns it, which may fail.
get_pan_thunder_com ==
    /\ pc = "next"
    /\ Route(request) = "get_pan_thunder_com"
    /\ IF ~InScope(request)
       THEN /\ response' = RedirectTemporary(SYNOPKG_WEB_UI_HOME)
            /\ pc' = "done"
            /\ UNCHANGED <<child, spawned>>
       ELSE \/ /\ response' = AppError
               /\ pc' = "done"
               /\ UNCHANGED <<child, spawned>>
            \/ /\ spawned' = spawned + 1
               /\ \/ /\ child' = [env |-> CgiEnv(request), stdout |-> <<>>, exit |-> 0,
                                 captured |-> FALSE]
                     /\ pc' = "spawned"
                     /\ response' = response
                  \/ /\ child' = child
                     /\ pc' = "done"
                     /\ response' = AppError
    /\ UNCHANGED <<task, CHECK_AUTH, now, issued, request, decision, generated>>

\* The child runs: it writes its output and exits with some status.
child_run(Outputs) ==
    /\ pc = "spawned"
    /\ \E out \in Outputs, code \in {0, 1} :
          child' = [child EXCEPT !.stdout = out, !.exit = code]
    /\ pc' = "exited"
    /\ UNCHANGED <<task, CHECK_AUTH, now, issued, request, decision, generated, response, spawned>>

(***************************************************************************)
(* The gateway handler: the child's output parsed into the response.       *)
(***************************************************************************)
STATUS == <<"S","t","a","t","u","s">>
GETENVS == <<"g","e","t","E","n","v","s"," ">>

\* The characters a header name may hold (http::HeaderName), upper case
\* included: from_str maps them to lower case.
TokenChars == Range(Upper) \cup Range(Lower) \cup Range(Digits)
                \cup {"!", "#", "$", "%", "&", "*", "+", "-", ".", "^", "_", "|", "~"}

\* HeaderName::from_str succeeds.
ValidHeaderName(name) == name # <<>> /\ Range(name) \subseteq TokenChars

\* Bytes below 32 (other than tab) and 127, which HeaderValue::from_str refuses.
ControlChars == {"\r", "\n", "\f"}

\* HeaderValue::from_str succeeds.
ValidHeaderValue(val) == Range(val) \cap (ControlChars \cup {InvalidByte}) = {}

DigitValue(c) == (CHOOSE i \in 1..10 : Digits[i] = c) - 1

AllDigits(t) == t # <<>> /\ Range(t) \subseteq Range(Digits)

\* str::parse::<u16> of a text of at most three characters: decimal digits
\* after an optional plus sign.
ParseU16(t) ==
    LET d == IF t # <<>> /\ Head(t) = "+" THEN Tail(t) ELSE t
        RECURSIVE Value(_)
        Value(x) == IF x = <<>> THEN 0
                    ELSE 10 * Value(SubSeq(x, 1, Len(x) - 1)) + DigitValue(x[Len(x)])
    IN  IF AllDigits(d) THEN Ok(Value(d)) ELSE Err

\* Builder::status, then Builder::body: a status outside 100..999 is refused.
BuildResponse(status_code, headers, body) ==
    IF status_code < 100 \/ status_code > 999
    THEN AppError
    ELSE Resp("cgi", status_code, None, None, headers, body)

\* BufRead::lines, one line: the text up to the first '\n', without the
\* '\n' and without a '\r' before it.
FirstLine(bytes) ==
    IF Find(bytes, "\n") = 0 THEN bytes
    ELSE IF Find(bytes, "\n") > 1 /\ bytes[Find(bytes, "\n") - 1] = "\r"
    THEN SubSeq(bytes, 1, Find(bytes, "\n") - 2)
    ELSE SubSeq(bytes, 1, Find(bytes, "\n") - 1)

\* The cursor after that line.
AfterFirstLine(bytes) ==
    IF Find(bytes, "\n") = 0 THEN <<>>
    ELSE SubSeq(bytes, Find(bytes, "\n") + 1, Len(bytes))

\* The header loop of the handler, from the cursor at bytes, with the status
\* and the headers gathered so far; then the response is built.
RECURSIVE ParseHeaders(_, _, _)
ParseHeaders(bytes, status_code, headers) ==
    IF bytes = <<>> THEN BuildResponse(status_code, headers, <<>>)
    ELSE LET header == FirstLine(bytes)
             rest   == AfterFirstLine(bytes)
             parts  == SplitOnce(header, ":")
         IN  IF InvalidByte \in Range(header) THEN AppError
             ELSE IF header = <<>> THEN BuildResponse(status_code, headers, rest)
             ELSE IF StartsWith(header, GETENVS) THEN ParseHeaders(rest, status_code, headers)
             ELSE IF parts = None THEN AppError
             ELSE IF Unwrap(parts)[2] = <<>> THEN Aborted
             ELSE LET name == Unwrap(parts)[1]
                      val  == Tail(Unwrap(parts)[2])
                  IN  IF name = STATUS
                      THEN IF Len(val) < 3 THEN Aborted
                           ELSE IF ParseU16(SubSeq(val, 1, 3)) = Err THEN AppError
                           ELSE ParseHeaders(rest, ParseU16(SubSeq(val, 1, 3))[2], headers)
                      ELSE IF ~ValidHeaderName(name) \/ ~ValidHeaderValue(val)
                           THEN AppError
                           ELSE ParseHeaders(rest, status_code,
                                             Append(headers, <<to_ascii_lowercase(name), val>>))

\* CgiResponse as it would be if an empty line did not end the header loop:
\* the lines after it are read as header lines too.
CgiResponseReadingBodyLines(stdout) ==
    LET RECURSIVE Lines(_)
        Lines(ls) == IF ls = <<>> THEN <<>>
                     ELSE Head(ls) \o <<"\n">> \o Lines(Tail(ls))
    IN  ParseHeaders(Lines(FilterNonEmpty(Split(stdout, "\n"))), 200, <<>>)

\* CgiResponse as it would be if a Status line never changed status_code.
CgiResponseIgnoringStatus(stdout) ==
    LET r == ParseHeaders(stdout, 200, <<>>)
    IN  IF r.kind = "cgi" THEN [r EXCEPT !.status = 200] ELSE r

\* CgiResponse as it would be with another initial status_code.
CgiResponseDefaultingTo204(stdout) == ParseHeaders(stdout, 204, <<>>)

\* The response for the captured output: the status starts at 200.
CgiResponse(stdout) == ParseHeaders(stdout, 200, <<>>)

\* The handler resumes when the child has exited: wait_with_output returns the
\* captured output, or fails.
wait_with_output ==
    /\ pc = "exited"
    /\ \/ /\ child' = [child EXCEPT !.captured = TRUE]
          /\ response' = CgiResponse(child.stdout)
       \/ /\ child' = child
          /\ response' = AppError
    /\ pc' = "done"
    /\ UNCHANGED <<task, CHECK_AUTH, now, issued, request, decision, generated, spawned>>

\* The response is written to the client; the next request can be taken.
Respond ==
    /\ pc = "done"
    /\ pc' = "idle"
    /\ request' = NoRequest
    /\ decision' = "none"
    /\ generated' = None
    /\ child' = NoChild
    /\ response' = NoResponse
    /\ spawned' = 0
    /\ UNCHANGED <<task, CHECK_AUTH, now, issued>>

(***************************************************************************)
(* The gateway handler from the spawn on, one step for each point where    *)
(* the task can be suspended: the writes of io::copy to the child's stdin, *)
(* the close of stdin when the wait begins, the reads of the child's       *)
(* stdout, and the return of wait_with_output.  The child runs between     *)
(* these steps.                                                            *)
(***************************************************************************)
\* The state of the server outside the tasks.
server == <<CHECK_AUTH, now, issued, pc, request, decision, generated, child, response, spawned>>

\* std::process::ExitStatus: an exit code, or the signal that ended the child.
ExitStatuses == {"exit 0", "exit 1", "signal 9"}

\* The child whose pipes task i holds, if one child were shared by all tasks.
SharedChild(i) == 1

\* The child whose pipes task i holds: child is a local of the handler.
ChildOf(i) == i

\* The chunk io::copy would write if it never advanced in the body.
NextChunkFromStart(body, sent) == <<body[1]>>

\* The chunk io::copy writes next: the body is written in order.
NextChunk(body, sent) == <<body[Len(sent) + 1]>>

\* The locals of a handler that returns, if the pipes of child outlived it.
DropChildKeepingPipes(t) == t

\* The handler returns: child and the pipes taken from it are dropped, which
\* closes the handler's end of each pipe.
DropChild(t) == [t EXCEPT !.stdin.writer = FALSE, !.stdout.reader = FALSE]

\* The handler returns early through `?` with an application error.
Failed(t, step) ==
    [DropChild(t) EXCEPT !.pc = "done", !.response = AppError, !.failure = step]

\* The response for an Output, if a child that did not exit with 0 were an error.
OutputResponseFailingOnStatus(output) ==
    IF output.status # "exit 0" THEN AppError ELSE CgiResponse(output.stdout)

\* The response built from the Output of wait_with_output: only output.stdout
\* is read.
OutputResponse(output) == CgiResponse(output.stdout)

\* The process as the spawn leaves it.
StartProcess(program) ==
    [NoProcess EXCEPT !.pc = IF program.order = "read_write" THEN "read"
                              ELSE IF program.order = "write_read" THEN "write"
                              ELSE "exit",
                      !.todo = IF program.order = "write_read" THEN Unwrap(program.out)
                               ELSE <<>>]

\* What a program that has read its input writes.
ProgramOutput(program, input) ==
    IF program.out = None THEN <<"\n">> \o input ELSE Unwrap(program.out)

\* cmd.spawn(): it fails, and the handler returns an application error, or
\* it starts the process with a pipe to its stdin and a pipe from its
\* stdout.  With a body the handler goes on to copy it, without one to wait.
cmd_spawn(Ids, Bodies, Programs) ==
    /\ \E i \in Ids, b \in Bodies, p \in Programs :
          /\ task[i].pc = "idle"
          /\ \/ task' = [task EXCEPT ![i] =
                            [IdleTask EXCEPT !.body = b, !.program = p, !.spawns = 1,
                                             !.pc = "done", !.response = AppError,
                                             !.failure = "spawn"]]
             \/ task' = [task EXCEPT ![i] =
                            [IdleTask EXCEPT !.body = b, !.program = p, !.spawns = 1,
                                             !.pc = IF b # None THEN "copy" ELSE "wait",
                                             !.stdin = NewPipe, !.stdout = NewPipe,
                                             !.proc = StartProcess(p)]]
    /\ UNCHANGED server

\* tokio::io::copy(&mut r, w): one write to the pipe, which needs room in it
\* and fails when the child has closed its end; the copy returns when the
\* whole body is written.
io_copy(Ids) ==
    /\ \E i \in Ids :
          /\ task[i].pc = "copy"
          /\ IF Len(task[i].sent) = Len(Unwrap(task[i].body))
             THEN task' = [task EXCEPT ![i].pc = "wait"]
             ELSE IF ~task[ChildOf(i)].stdin.reader
             THEN task' = [task EXCEPT ![i] = Failed(task[i], "copy")]
             ELSE /\ Len(task[ChildOf(i)].stdin.buf) < PipeCapacity
                  /\ task' = [task EXCEPT
                                 ![i].sent = @ \o NextChunk(Unwrap(task[i].body), task[i].sent),
                                 ![ChildOf(i)].stdin.buf =
                                     @ \o NextChunk(Unwrap(task[i].body), task[i].sent)]
    /\ UNCHANGED server

\* child.wait_with_output() begins: Child::wait drops stdin, which closes
\* the write end of the pipe, before it waits for the exit.
wait_drops_stdin(Ids) ==
    /\ \E i \in Ids :
          /\ task[i].pc = "wait"
          /\ task' = [task EXCEPT ![i].pc = "read", ![ChildOf(i)].stdin.writer = FALSE]
    /\ UNCHANGED server

\* wait_with_output reads what is in the stdout pipe.
read_to_end(Ids) ==
    /\ \E i \in Ids :
          /\ task[i].pc = "read"
          /\ task[ChildOf(i)].stdout.buf # <<>>
          /\ task' = [task EXCEPT ![i].captured = @ \o task[ChildOf(i)].stdout.buf,
                                  ![ChildOf(i)].stdout.buf = <<>>]
    /\ UNCHANGED server

\* wait_with_output returns: with the Output, when the child has exited and
\* its stdout is read to the end, and the handler builds the response from
\* it; or with an I/O error, when the reads can fail, and the handler
\* returns an application error.
wait_with_output_returns(Ids, Faults) ==
    /\ \E i \in Ids :
          /\ task[i].pc = "read"
          /\ \/ /\ task[ChildOf(i)].stdout.buf = <<>>
                /\ ~task[ChildOf(i)].stdout.writer
                /\ task[ChildOf(i)].proc.pc = "exited"
                /\ LET r == OutputResponse([status |-> task[ChildOf(i)].proc.exit,
                                            stdout |-> task[i].captured])
                   IN  task' = [task EXCEPT ![i].pc = "done",
                                            ![i].response = r,
                                            ![i].failure = IF r.kind = "cgi" THEN "none"
                                                           ELSE "parse",
                                            ![ChildOf(i)].stdout.reader = FALSE]
             \/ /\ "capture" \in Faults
                /\ task' = [task EXCEPT ![i] = Failed(task[i], "capture")]
    /\ UNCHANGED server

\* The response of the task is written to the client.
task_respond(Ids) ==
    /\ \E i \in Ids :
          /\ task[i].pc = "done"
          /\ task' = [task EXCEPT ![i] = IdleTask]
    /\ UNCHANGED server

\* The child reads a byte of its stdin, or the end of it once the pipe is
\* empty and its write end is closed.
child_read(Ids) ==
    /\ \E i \in Ids :
          /\ task[i].proc.pc = "read"
          /\ IF task[i].stdin.buf # <<>>
             THEN task' = [task EXCEPT ![i].proc.input = @ \o <<Head(task[i].stdin.buf)>>,
                                       ![i].stdin.buf = Tail(@)]
             ELSE /\ ~task[i].stdin.writer
                  /\ task' = [task EXCEPT ![i].proc =
                                 IF task[i].program.order = "read_write"
                                 THEN [task[i].proc EXCEPT
                                          !.eof = TRUE, !.pc = "write",
                                          !.todo = ProgramOutput(task[i].program,
                                                                 task[i].proc.input)]
                                 ELSE [task[i].proc EXCEPT !.eof = TRUE, !.pc = "exit"]]
    /\ UNCHANGED server

\* The child writes a byte to its stdout, which needs room in the pipe; it
\* is ended by SIGPIPE when the read end is closed.
child_write(Ids) ==
    /\ \E i \in Ids :
          /\ task[i].proc.pc = "write"
          /\ IF task[i].proc.todo = <<>>
             THEN task' = [task EXCEPT ![i].proc.pc =
                              IF task[i].program.order = "write_read" THEN "read" ELSE "exit"]
             ELSE IF ~task[i].stdout.reader
             THEN task' = [task EXCEPT ![i].proc.pc = "exited",
                                       ![i].proc.exit = "signal 13",
                                       ![i].stdin.reader = FALSE,
                                       ![i].stdout.writer = FALSE]
             ELSE /\ Len(task[i].stdout.buf) < PipeCapacity
                  /\ task' = [task EXCEPT ![i].stdout.buf = @ \o <<Head(task[i].proc.todo)>>,
                                          ![i].proc.written = @ \o <<Head(task[i].proc.todo)>>,
                                          ![i].proc.todo = Tail(@)]
    /\ UNCHANGED server

\* The child exits, or is killed: its ends of the pipes are closed.
child_exit(Ids) ==
    /\ \E i \in Ids, status \in ExitStatuses :
          /\ task[i].proc.pc = "exit"
          /\ task' = [task EXCEPT ![i].proc.pc = "exited",
                                  ![i].proc.exit = status,
                                  ![i].stdin.reader = FALSE,
                                  ![i].stdout.writer = FALSE]
    /\ UNCHANGED server

(***************************************************************************)
(* Inputs: the requests clients send and the outputs children write.       *)
(***************************************************************************)
\* The sequences of at most n elements of S.
SeqsUpTo(S, n) == UNION {[1..k -> S] : k \in 0..n}

\* The texts of ss joined, sep between them.
RECURSIVE Join(_, _)
Join(ss, sep) == IF ss = <<>> THEN <<>>
                 ELSE IF Len(ss) = 1 THEN ss[1]
                 ELSE ss[1] \o sep \o Join(Tail(ss), sep)

\* Cookies a client may send: the access cookie with each token the server
\* can generate, with a text that is no token, under a longer name, with a
\* second '=', without '=', with a byte that is not visible ASCII, and
\* another cookie that holds a token.
CookiePool ==
    {ACCESS_COOKIE \o <<"=">> \o Tok(t) : t \in 0..MaxClock}
      \cup {ACCESS_COOKIE \o <<"=","z","z">>,
            ACCESS_COOKIE \o <<"x","=">> \o Tok(0),
            ACCESS_COOKIE \o <<"=">> \o Tok(0) \o <<"=","x">>,
            ACCESS_COOKIE,
            ACCESS_COOKIE \o <<"=">> \o Tok(0) \o <<InvalidByte>>,
            <<"s","i","d","=">> \o Tok(0)}

CookieHeaders == {Join(cs, <<";"," ">>) : cs \in SeqsUpTo(CookiePool, MaxCookies) \ {<<>>}}

\* Requests to the protected routes, with and without a Cookie header.
ProtectedRequests ==
    {Req(GET, p, None, hs, None, 0) :
        p \in {<<"/">>, SYNOPKG_WEB_UI_HOME, WEBMAN_LOGIN_PATH},
        hs \in {<<>>} \cup {<< <<<<"C","o","o","k","i","e">>, h>> >> : h \in CookieHeaders}}

\* Requests to the login routes.
LoginRequests ==
    {Req(GET, LOGIN_PATH, None, <<>>, None, 0)}
      \cup {Req(POST, LOGIN_PATH, None, <<>>, Some(pw), 0) : pw \in {"pw", "pW", ""}}

\* Headers of a request to the gateway: a Proxy header in two spellings, an
\* empty value, Host in two spellings with two values, a value that is not
\* visible ASCII, and Content-Type.
HeaderPool ==
    { <<<<"P","r","o","x","y">>, <<"p">>>>, <<<<"P","R","O","X","Y">>, <<"p">>>>, <<<<"X">>, <<"a">>>>, <<<<"X">>, <<>>>>,
      <<<<"H","o","s","t">>, <<"h">>>>, <<<<"H","O","S","T">>, <<"g">>>>,
      <<<<"Y">>, <<InvalidByte>>>>, <<<<"C","o","n","t","e","n","t","-","T","y","p","e">>, <<"t">>>> }

\* Paths under the mount prefix and outside it, with and without a query;
\* one query names the mount prefix.
GatewayRequests ==
    {Req(GET, p, q, hs, None, 0) :
        p \in {SYNOPKG_WEB_UI_HOME, SYNOPKG_WEB_UI_HOME \o <<"x">>, <<"/","x">>, <<"/">>,
               <<"/","x">> \o SYNOPKG_WEB_UI_HOME, WEBMAN_LOGIN_PATH},
        q \in {None, Some(<<"a">>), Some(<<"u","=">> \o SYNOPKG_WEB_UI_HOME)},
        hs \in SeqsUpTo(HeaderPool, MaxHeaders)}

\* One request that reaches the spawn step.
PlainRequests == {Req(GET, SYNOPKG_WEB_UI_HOME, None, <<>>, None, 0)}

\* Lines a child may write.
LinePool ==
    { <<"S","t","a","t","u","s",":"," ","4","0","4"," ","N","o","t"," ","F","o","u","n","d">>,
      <<"S","t","a","t","u","s",":"," ","2","0","0"," ","O","K">>,
      <<"X",":"," ","a">>,
      <<"Y",":"," ","b">>,
      <<"b","a","d">>,
      <<"X",":">>,
      <<"g","e","t","E","n","v","s"," ","x">>,
      <<"S","t","a","t","u","s",":"," ","4">>,
      <<"S","t","a","t","u","s",":"," ","a","b","c">>,
      <<"X",":","b">>,
      <<"s","t","a","t","u","s",":"," ","4","0","4">>,
      <<"X"," ","Y",":"," ","a">>,
      <<"X",":"," ",InvalidByte>>,
      <<>> }

\* The output made of the lines ls, each ended by '\n'.
Output(ls) == IF ls = <<>> THEN <<>> ELSE Join(ls, <<"\n">>) \o <<"\n">>

CgiOutputs == {Output(ls) : ls \in SeqsUpTo(LinePool, MaxLines)}

\* One well-formed output.
PlainOutputs == {Output(<<<<"X",":"," ","a">>, <<>>, <<"b">>>>)}

\* Bodies of requests: none, the empty one, and texts of a and b.
Bodies == {None} \cup {Some(b) : b \in SeqsUpTo({"a", "b"}, MaxBody)}

\* Outputs of a program that does not depend on its input: a body after an
\* empty header block, a header and a body, a line without a colon, a line
\* with nothing after the colon, and no output at all.
FixedOutputs ==
    { <<"\n", "b">>,
      <<"X", ":", " ", "a", "\n", "\n", "b">>,
      <<"b", "a", "d", "\n">>,
      <<"X", ":", "\n">>,
      <<>> }

\* Programs: one that echoes its input, programs that read and then write,
\* programs that write and then read, and one that exits at once.
Programs ==
    {Program("read_write", None)}
      \cup {Program("read_write", Some(o)) : o \in FixedOutputs}
      \cup {Program("write_read", Some(o)) : o \in FixedOutputs}
      \cup {Program("exit", Some(<<>>))}

\* The reads of the child's stdout can fail.
IoFaults == {"capture"}

\* Bodies that mark their request, and the program that echoes the marker.
MarkerBodies == {Some(<<"a">>), Some(<<"b">>)}
EchoPrograms == {Program("read_write", None)}

(***************************************************************************)
(* Specifications.  Spec is the server under requests to the login and the *)
(* protected routes; SpecGateway varies the URI and the headers of the     *)
(* requests to the gateway; SpecCgi varies the output of the child.        *)
(***************************************************************************)
Next ==
    \/ Tick
    \/ get_login(LoginRequests)
    \/ post_login(LoginRequests)
    \/ auth_middleware(ProtectedRequests)
    \/ get_webman_login
    \/ get_pan_thunder_com
    \/ child_run(PlainOutputs)
    \/ wait_with_output
    \/ Respond

Spec == Init /\ [][Next]_vars

NextGateway ==
    \/ auth_middleware(GatewayRequests)
    \/ get_webman_login
    \/ get_pan_thunder_com
    \/ child_run(PlainOutputs)
    \/ wait_with_output
    \/ Respond

SpecGateway == Init /\ [][NextGateway]_vars

NextCgi ==
    \/ auth_middleware(PlainRequests)
    \/ get_pan_thunder_com
    \/ child_run(CgiOutputs)
    \/ wait_with_output
    \/ Respond

SpecCgi == Init /\ [][NextCgi]_vars

\* The steps of the handler's tasks Ids, and of their children.
HandlerStep(Ids, Bs, Ps, Faults) ==
    \/ cmd_spawn(Ids, Bs, Ps)
    \/ io_copy(Ids)
    \/ wait_drops_stdin(Ids)
    \/ read_to_end(Ids)
    \/ wait_with_output_returns(Ids, Faults)
    \/ task_respond(Ids)

ChildStep(Ids) ==
    \/ child_read(Ids)
    \/ child_write(Ids)
    \/ child_exit(Ids)

\* SpecPipe is one task of the handler with its child, over the bodies and
\* the programs; SpecPipeLive is SpecPipe with the handler and the child
\* each taking a step when they can: the task is polled when its pipe is
\* ready, and the child is a running process.
NextPipe == HandlerStep({1}, Bodies, Programs, IoFaults) \/ ChildStep({1})

SpecPipe == Init /\ [][NextPipe]_vars

SpecPipeLive ==
    /\ Init
    /\ [][NextPipe]_vars
    /\ WF_vars(HandlerStep({1}, Bodies, Programs, IoFaults))
    /\ WF_vars(ChildStep({1}))

\* SpecConcurrent is the tasks of the handler at the same time, each with a
\* request that carries a marker and a child that echoes it, with reads
\* that do not fail.
NextConcurrent == HandlerStep(Tasks, MarkerBodies, EchoPrograms, {}) \/ ChildStep(Tasks)

SpecConcurrent == Init /\ [][NextConcurrent]_vars

(***************************************************************************)
(* Properties of the auth middleware and of login, checked under Spec.     *)
(***************************************************************************)
Configured == CHECK_AUTH # None

\* The request in hand went through auth_middleware.
Decided == decision # "none"

\* The Cookie header of req holds a cookie named exactly access_token whose
\* value, the text after the first '=', verifies at the time of the request.
HasValidAccessCookie(req) ==
    /\ HeaderGet(req.headers, COOKIE) # None
    /\ \E c \in {Trim(x) : x \in Range(Split(Unwrap(HeaderGet(req.headers, COOKIE)), ";"))} :
          /\ SplitOnce(c, "=") # None
          /\ Unwrap(SplitOnce(c, "="))[1] = ACCESS_COOKIE
          /\ verifier(Unwrap(SplitOnce(c, "="))[2], req.at)

\* C1: with a password configured, a request to a protected route that carries
\* no access_token cookie whose token verifies is answered with the redirect
\* to /login, is not forwarded, and no process is spawned for it.
C1_DenyRedirectsToLogin ==
    (Decided /\ Configured /\ ~HasValidAccessCookie(request))
        => /\ decision = "Deny"
           /\ pc = "done"
           /\ response = RedirectTo(LOGIN_PATH)
           /\ spawned = 0

\* C2: with no password configured, auth_middleware forwards every request
\* on a protected route, whatever cookies it carries.
C2_UnconfiguredForwards ==
    (Decided /\ ~Configured)
        => /\ decision = "Allow"
           /\ response # RedirectTo(LOGIN_PATH)

\* C2 witness: no password, a request with an access_token cookie that is no
\* token has been forwarded to the next handler.
C2_Witness ==
    /\ ~Configured
    /\ pc = "next"
    /\ decision = "Allow"
    /\ HeaderGet(request.headers, COOKIE) = Some(ACCESS_COOKIE \o <<"=","z","z">>)

\* The cookie a client stores from a Set-Cookie value and sends back.
CookiePair(set_cookie) == Split(set_cookie, ";")[1]

ExactSegmentVerifies(req) ==
    /\ HeaderGet(req.headers, COOKIE) # None
    /\ \E x \in Range(Split(Unwrap(HeaderGet(req.headers, COOKIE)), ";")) :
          /\ Len(Split(Trim(x), "=")) = 2
          /\ Split(Trim(x), "=")[1] = ACCESS_COOKIE
          /\ verifier(Split(Trim(x), "=")[2], req.at)

\* C4: with a password configured, the middleware forwards exactly when a
\* segment named exactly access_token, with one '=', holds a token that
\* verifies: a segment under another name never causes Allow, and a segment
\* with more or fewer than one '=' is passed over.
C4_ExactCookieName ==
    (Decided /\ Configured) => (decision = "Allow" <=> ExactSegmentVerifies(request))

\* The password of the form passes: none is configured, or it is the
\* configured one.
PasswordPasses == ~Configured \/ Unwrap(request.form) = Unwrap(CHECK_AUTH)

\* The response is the login success: 303 to the application home with the
\* cookie access_token=<token>; Max-Age=<EXP>; Path=/; HttpOnly.
IsLoginSuccess(resp, token) ==
    /\ resp.status = 303
    /\ resp.location = Some(SYNOPKG_WEB_UI_HOME)
    /\ resp.set_cookie # None
    /\ Split(Unwrap(resp.set_cookie), ";")
          = << ACCESS_COOKIE \o <<"=">> \o token,
               <<" ","M","a","x","-","A","g","e","=">> \o <<Digit(EXP)>>,
               <<" ","P","a","t","h","=","/">>,
               <<" ","H","t","t","p","O","n","l","y">> >>

\* The response is the redirect to /login, without Set-Cookie.
IsLoginFailure(resp) ==
    /\ resp.status = 303
    /\ resp.location = Some(LOGIN_PATH)
    /\ resp.set_cookie = None
    /\ resp.headers = <<>>
    /\ resp.body = <<>>

\* C5 as stated: POST /login succeeds exactly when no password is configured
\* or the supplied password is the configured one; every failure is the
\* redirect to /login without Set-Cookie.
C5_SucceedsIffPasswordPasses ==
    (pc = "done" /\ Route(request) = "post_login")
        => /\ PasswordPasses <=> (\E t \in 0..MaxClock : IsLoginSuccess(response, Tok(t)))
           /\ ~PasswordPasses => IsLoginFailure(response)

\* C5 amended: POST /login asks for a token exactly when the password passes,
\* and succeeds exactly when the password passes and generate_token returns
\* a token; success is the 303 with that token in the cookie, and every
\* failure is the same redirect to /login without Set-Cookie.
C5_SucceedsIffPasswordPassesAndTokenGenerated ==
    (pc = "done" /\ Route(request) = "post_login")
        => /\ (generated # None) <=> PasswordPasses
           /\ IF PasswordPasses /\ generated # Err
              THEN IsLoginSuccess(response, generated[2])
              ELSE IsLoginFailure(response)

\* C5 witness: the configured password was supplied, a token was generated
\* and the response sets the cookie.
C5_Witness ==
    /\ pc = "done"
    /\ Route(request) = "post_login"
    /\ Configured
    /\ PasswordPasses
    /\ generated = Ok(Tok(now))
    /\ IsLoginSuccess(response, Tok(now))

(***************************************************************************)
(* Properties of the gateway handler's scope test and environment, checked *)
(* under SpecGateway.                                                      *)
(***************************************************************************)
\* The request in hand was forwarded to get_pan_thunder_com and the handler
\* has passed its scope test.
GatewayEntered ==
    /\ decision = "Allow"
    /\ Route(request) = "get_pan_thunder_com"
    /\ pc \in {"spawned", "exited", "done"}

\* The path of the request is under the mount prefix.
UnderMountPrefix(req) == StartsWith(req.path, SYNOPKG_WEB_UI_HOME)

\* C6: a request whose path is outside the mount prefix is answered with the
\* redirect to the prefix and no process is spawned for it; only requests
\* whose path is under the prefix reach the spawn step.
C6_OutsidePrefixRedirected ==
    /\ (GatewayEntered /\ ~UnderMountPrefix(request))
          => (response = RedirectTemporary(SYNOPKG_WEB_UI_HOME) /\ spawned = 0)
    /\ spawned > 0 => UnderMountPrefix(request)

\* The names under which a variable derived from the header name may be passed.
DerivedNames(name) ==
    {HTTP_PREFIX \o name, HTTP_PREFIX \o to_ascii_lowercase(name)}

\* The request has a header of that name, in any case, with a non-empty value.
HasNonEmptyHeader(req, name) ==
    \E i \in 1..Len(req.headers) :
        /\ to_ascii_lowercase(req.headers[i][1]) = to_ascii_lowercase(name)
        /\ req.headers[i][2] # <<>>

\* C7: the child receives a variable HTTP_<header-name> for a request header
\* exactly when the name is not Proxy, in any case, and the value is not
\* empty; no variable derived from a Proxy header is passed.
C7_HeaderVariables ==
    pc \in {"spawned", "exited"}
        => \A i \in 1..Len(request.headers) :
              LET name == request.headers[i][1]
              IN  (DerivedNames(name) \cap DOMAIN child.env # {})
                     <=> (/\ to_ascii_lowercase(name) # to_ascii_lowercase(PROXY)
                          /\ HasNonEmptyHeader(request, name))

\* The variables with fixed values and the variables derived from the request.
FixedNames ==
    {SERVER_SOFTWARE, SERVER_PROTOCOL, GATEWAY_INTERFACE, REQUEST_METHOD, QUERY_STRING,
     REQUEST_URI, PATH_INFO, SCRIPT_NAME, SCRIPT_FILENAME, SERVER_PORT, REMOTE_ADDR,
     SERVER_NAME, HTTP_HOST}

\* C17: in the environment of the child each fixed and request-derived
\* variable holds the value the handler set before the header loop: no
\* variable written for a request header replaces one of them.
C17_FixedVariablesKept ==
    pc \in {"spawned", "exited"}
        => \A k \in FixedNames :
              /\ k \in DOMAIN child.env
              /\ child.env[k] = FixedEnv(request)[k]

\* C17 witness: the request has two Host headers, spelled Host and HOST, with
\* different values; HTTP_HOST holds the first one, the real host, and the
\* variable written for the second one has another name.
C17_Witness ==
    /\ pc = "spawned"
    /\ request.headers = << <<<<"H","o","s","t">>, <<"h">>>>, <<<<"H","O","S","T">>, <<"g">>>> >>
    /\ child.env[HTTP_HOST] = <<"h">>
    /\ HTTP_PREFIX \o HOST \in DOMAIN child.env
    /\ child.env[HTTP_PREFIX \o HOST] = <<"g">>

(***************************************************************************)
(* Properties of the response built from the child's output, checked under *)
(* SpecCgi.                                                                *)
(***************************************************************************)
\* The handler captured the child's output and returned.
OutputHandled == pc = "done" /\ child.captured

\* The lines before the first empty line.
RECURSIVE UntilEmpty(_)
UntilEmpty(ls) == IF ls = <<>> \/ Head(ls) = <<>> THEN <<>>
                  ELSE <<Head(ls)>> \o UntilEmpty(Tail(ls))

\* The lines of ls that do not start with the diagnostic prefix.
RECURSIVE WithoutDiagnostics(_)
WithoutDiagnostics(ls) ==
    IF ls = <<>> THEN <<>>
    ELSE IF StartsWith(Head(ls), GETENVS) THEN WithoutDiagnostics(Tail(ls))
    ELSE <<Head(ls)>> \o WithoutDiagnostics(Tail(ls))

\* The header block of an output: its lines before the first empty line,
\* without the diagnostic lines.
HeaderBlock(bytes) == WithoutDiagnostics(UntilEmpty(Split(bytes, "\n")))

\* The name of a header line: the text before its first colon.
LineName(l) == SubSeq(l, 1, Find(l, ":") - 1)

\* The value of a header line "name: value".
LineValue(l) == SubSeq(l, Find(l, ":") + 2, Len(l))

\* The line is "name: value" with a legal name and a legal value.
WellFormedLine(l) ==
    /\ Find(l, ":") > 0
    /\ Len(l) > Find(l, ":")
    /\ l[Find(l, ":") + 1] = " "
    /\ ValidHeaderName(LineName(l))
    /\ ValidHeaderValue(LineValue(l))

\* The line is a Status line with a three-digit status of 100 or more.
WellFormedStatus(l) ==
    /\ Len(LineValue(l)) >= 3
    /\ \A i \in 1..3 : LineValue(l)[i] \in Range(Digits)
    /\ LineValue(l)[1] # "0"

\* A well-formed output: every line of the header block is "name: value",
\* and at most one is a Status line, whatever the case of its name.
WellFormed(bytes) ==
    LET block == HeaderBlock(bytes)
        IsStatus(i) == to_ascii_lowercase(LineName(block[i])) = to_ascii_lowercase(STATUS)
    IN  /\ \A i \in 1..Len(block) : WellFormedLine(block[i])
        /\ \A i \in 1..Len(block) : IsStatus(i) => WellFormedStatus(block[i])
        /\ \A i, j \in 1..Len(block) : (IsStatus(i) /\ IsStatus(j)) => i = j

STATUS_404 == <<"S","t","a","t","u","s",":"," ","4","0","4"," ","N","o","t"," ","F","o","u","n","d">>

\* The header lines other than Status, as <<lower-case name, value>>, in order.
RECURSIVE OtherHeaders(_)
OtherHeaders(block) ==
    IF block = <<>> THEN <<>>
    ELSE IF LineName(Head(block)) = STATUS THEN OtherHeaders(Tail(block))
    ELSE << <<to_ascii_lowercase(LineName(Head(block))), LineValue(Head(block))>> >>
           \o OtherHeaders(Tail(block))

NoStatusLine(bytes) ==
    \A l \in Range(HeaderBlock(bytes)) : Find(l, ":") = 0 \/ LineName(l) # STATUS

\* C9 as stated: for every output whose header block has no line named
\* exactly Status, the status of the HTTP response is 200.
C9_NoStatusGives200 ==
    (OutputHandled /\ NoStatusLine(child.stdout) /\ response.kind # "aborted")
        => response.status = 200

\* The line parses: it is valid UTF-8, has a colon with at least one character
\* after it, a legal header name before the colon, and a legal header value
\* after the character that follows the colon.
LineParses(l) ==
    /\ InvalidByte \notin Range(l)
    /\ Find(l, ":") > 0
    /\ Len(l) > Find(l, ":")
    /\ ValidHeaderName(LineName(l))
    /\ ValidHeaderValue(LineValue(l))

\* C9 amended: for every output whose header block has no line named exactly
\* Status, the response status is 200 when every line of the block parses;
\* otherwise the request fails, with an application error or without a
\* response, and no other status is returned.
C9_NoStatusGives200WhenLinesParse ==
    (OutputHandled /\ NoStatusLine(child.stdout))
        => IF \A l \in Range(HeaderBlock(child.stdout)) : LineParses(l)
           THEN response.kind = "cgi" /\ response.status = 200
           ELSE response.kind \in {"error", "aborted"}

\* C9 witness: an output with header lines, none named Status (one is named
\* status in lower case), was answered with 200.
C9_Witness ==
    /\ OutputHandled
    /\ NoStatusLine(child.stdout)
    /\ \E l \in Range(HeaderBlock(child.stdout)) :
          Find(l, ":") > 0 /\ to_ascii_lowercase(LineName(l)) = to_ascii_lowercase(STATUS)
    /\ response.kind = "cgi"
    /\ response.status = 200

\* C10: when a line of the header block has no colon, the request ends in an
\* application error (5xx), and no response built from the headers parsed so
\* far is returned.
C10_ColonlessLineIsAppError ==
    (/\ OutputHandled
     /\ \E l \in Range(HeaderBlock(child.stdout)) : Find(l, ":") = 0)
        => /\ response.kind = "error"
           /\ response.status \in 500..599

\* The byte at k is the '\n' of an empty line: the line it ends holds
\* nothing, or only the '\r' of a "\r\n".
EndsEmptyLine(bytes, k) ==
    /\ bytes[k] = "\n"
    /\ \/ k = 1
       \/ bytes[k - 1] = "\n"
       \/ bytes[k - 1] = "\r" /\ (k = 2 \/ bytes[k - 2] = "\n")

\* The position of the end of the first empty line, 0 when there is none.
Boundary(bytes) ==
    IF \E k \in 1..Len(bytes) : EndsEmptyLine(bytes, k)
    THEN CHOOSE k \in 1..Len(bytes) :
            EndsEmptyLine(bytes, k) /\ \A j \in 1..(k - 1) : ~EndsEmptyLine(bytes, j)
    ELSE 0

\* The bytes up to and with the first empty line, all of them without one.
HeaderPart(bytes) ==
    IF Boundary(bytes) = 0 THEN bytes ELSE SubSeq(bytes, 1, Boundary(bytes))

\* The bytes after the first empty line, none without one.
BodyPart(bytes) ==
    IF Boundary(bytes) = 0 THEN <<>> ELSE SubSeq(bytes, Boundary(bytes) + 1, Len(bytes))

\* C14: the header block ends at the first empty line.  The body of the
\* response is the bytes after that line, unchanged, and is empty when there
\* is no empty line; the response headers come from the lines before it,
\* every one of them when there is none; and whether the request fails, the
\* status and the headers are what they would be for the bytes up to the
\* empty line alone, whatever lines come after it.
C14_BodyAfterFirstEmptyLine ==
    OutputHandled
        => /\ response.kind = "cgi"
                 => /\ response.body = BodyPart(child.stdout)
                    /\ response.headers = OtherHeaders(HeaderBlock(child.stdout))
           /\ response.kind = CgiResponse(HeaderPart(child.stdout)).kind
           /\ response.status = CgiResponse(HeaderPart(child.stdout)).status
           /\ response.headers = CgiResponse(HeaderPart(child.stdout)).headers

\* C14 witness: after a header and an empty line the output holds the line
\* "Status: 404 Not Found"; the response is 200 with that line as its body.
C14_Witness ==
    /\ OutputHandled
    /\ child.stdout = <<"X", ":", " ", "a", "\n", "\n">> \o STATUS_404 \o <<"\n">>
    /\ response.kind = "cgi"
    /\ response.status = 200
    /\ response.headers = << <<<<"x">>, <<"a">>>> >>
    /\ response.body = STATUS_404 \o <<"\n">>

\* The lines of the block before the i-th are parsed without a failure.
ParsedBefore(block, i) ==
    \A j \in 1..(i - 1) :
        /\ LineParses(block[j])
        /\ LineName(block[j]) = STATUS => WellFormedStatus(block[j])

\* The value starts with three decimal digits.
ThreeDigits(v) == Len(v) >= 3 /\ \A k \in 1..3 : v[k] \in Range(Digits)

\* The decimal integer formed by the first three characters of the value.
Decimal3(v) == 100 * DigitValue(v[1]) + 10 * DigitValue(v[2]) + DigitValue(v[3])

\* The i-th line of the block is named exactly Status, something follows its
\* colon, and the parser reaches it.
StatusLineAt(block, i) ==
    /\ Find(block[i], ":") > 0
    /\ LineName(block[i]) = STATUS
    /\ Len(block[i]) > Find(block[i], ":")
    /\ ParsedBefore(block, i)

\* C15: when the parser reaches a line named exactly Status, then if the
\* first three characters of its value are decimal digits the status of the
\* response, unless a later Status line sets it again, is that integer; and
\* for every other value, shorter than three characters or not digits, the
\* request fails with an application error (5xx).
C15_StatusParsedOrAppError ==
    OutputHandled
        => \A i \in 1..Len(HeaderBlock(child.stdout)) :
              StatusLineAt(HeaderBlock(child.stdout), i)
                 => IF ThreeDigits(LineValue(HeaderBlock(child.stdout)[i]))
                    THEN (/\ response.kind = "cgi"
                          /\ \A j \in (i + 1)..Len(HeaderBlock(child.stdout)) :
                                LineName(HeaderBlock(child.stdout)[j]) # STATUS)
                            => response.status = Decimal3(LineValue(HeaderBlock(child.stdout)[i]))
                    ELSE /\ response.kind = "error"
                         /\ response.status \in 500..599

\* The i-th line of the block has a colon and the parser reaches it.
ColonLineAt(block, i) == Find(block[i], ":") > 0 /\ ParsedBefore(block, i)

\* C16: when the parser reaches a line with a colon, then if something
\* follows the colon the value of the header is the text after the colon
\* without its first character, whatever that character is; and if nothing
\* follows the colon the request still ends in an HTTP response, an
\* application error or a response built with an empty value.
C16_ValueAfterOneCharacter ==
    OutputHandled
        => \A i \in 1..Len(HeaderBlock(child.stdout)) :
              ColonLineAt(HeaderBlock(child.stdout), i)
                 => IF Len(HeaderBlock(child.stdout)[i]) > Find(HeaderBlock(child.stdout)[i], ":")
                    THEN (/\ response.kind = "cgi"
                          /\ LineName(HeaderBlock(child.stdout)[i]) # STATUS)
                            => \E h \in 1..Len(response.headers) :
                                  response.headers[h]
                                     = << to_ascii_lowercase(LineName(HeaderBlock(child.stdout)[i])),
                                          LineValue(HeaderBlock(child.stdout)[i]) >>
                    ELSE /\ response.kind \in {"cgi", "error"}
                         /\ response.status \in 100..599

(***************************************************************************)
(* Properties of the handler's use of the child's pipes, checked under     *)
(* SpecPipe.                                                               *)
(***************************************************************************)
\* p is the start of s.
IsPrefix(p, s) == Len(p) <= Len(s) /\ SubSeq(s, 1, Len(p)) = p

\* The spawn of task i succeeded.
ChildSpawned(i) == task[i].pc # "idle" /\ task[i].failure # "spawn"

\* The child of task i reads its input to the end.
AcceptsInput(i) == task[i].program.order # "exit"

\* The bytes of the body of task i, none when the request has no body.
BodyOf(i) == UnwrapOrDefault(task[i].body)

\* C11: for a request whose child is spawned and reads its input, the bytes
\* written to the child's stdin are the start of the body, in order, and
\* reach the child in that order; the handler closes stdin exactly when it
\* begins to wait, after the whole body is written, so that a child that
\* reads the end of its input has read exactly the body; without a body
\* stdin is closed with nothing written.
C11_BodyWrittenThenStdinClosed ==
    \A i \in Tasks :
        (ChildSpawned(i) /\ AcceptsInput(i))
            => /\ IsPrefix(task[i].sent, BodyOf(i))
               /\ task[i].proc.input \o task[i].stdin.buf = task[i].sent
               /\ task[i].stdin.writer <=> task[i].pc \in {"copy", "wait"}
               /\ ~task[i].stdin.writer => task[i].sent = BodyOf(i)
               /\ task[i].proc.eof => task[i].proc.input = BodyOf(i)
               /\ task[i].failure # "copy"

\* C11 witness: a body longer than the pipe holds was written, stdin is
\* closed, the handler waits, and the child has read the body to its end.
C11_Witness ==
    /\ task[1].pc = "read"
    /\ task[1].body = Some(<<"a", "b">>)
    /\ Len(BodyOf(1)) > PipeCapacity
    /\ ~task[1].stdin.writer
    /\ task[1].proc.eof
    /\ task[1].proc.input = <<"a", "b">>

\* A step of the handler of task i failed: the spawn, the copy of the body
\* to stdin, the capture of the output, or the parse of the output.
HandlerFailed(i) == task[i].pc = "done" /\ task[i].failure # "none"

\* C13: a request that reaches the handler causes at most one spawn, and
\* when the spawn, the copy to stdin, the capture of the output or the parse
\* of the output fails, the handler returns an application error (5xx).
C13_OneSpawnAndFailureIs5xx ==
    \A i \in Tasks :
        /\ task[i].spawns <= 1
        /\ HandlerFailed(i)
              => /\ task[i].response.kind = "error"
                 /\ task[i].response.status \in 500..599

\* The handler of task i has returned.
Returned(i) == task[i].pc \in {"done", "idle"}

\* C18: once the handler has returned, with a response, after a failed spawn,
\* a failed copy to stdin, a failed capture or a failed parse, it holds no
\* open end of a pipe of the child: the write end of stdin and the read end
\* of stdout are closed.
C18_NoPipeHeldAfterReturn ==
    \A i \in Tasks :
        Returned(i) => ~task[i].stdin.writer /\ ~task[i].stdout.reader

\* C18 witness: the copy to stdin failed while the pipes were open, the
\* handler returned an application error, and both its ends are closed.
C18_Witness ==
    /\ task[1].pc = "done"
    /\ task[1].failure = "copy"
    /\ task[1].sent # <<>>
    /\ task[1].response = AppError
    /\ ~task[1].stdin.writer
    /\ ~task[1].stdout.reader

\* C20, checked under SpecPipeLive: a request with a body whose child is
\* spawned and runs a program that reads all of its input, writes its output
\* and exits, in either order, is eventually answered.
C20_BodyRequestEventuallyAnswered ==
    (task[1].pc = "copy" /\ AcceptsInput(1)) ~> (task[1].pc = "done")

(***************************************************************************)
(* Properties of requests handled at the same time, checked under          *)
(* SpecConcurrent.                                                         *)
(***************************************************************************)
\* The handler of task i captured the output of a child and returned.
Answered(i) == task[i].pc = "done" /\ task[i].failure \in {"none", "parse"}

\* Task i is between its spawn and its return.
InFlight(i) == task[i].pc \in {"copy", "wait", "read"}

\* Task i or its child can take a step, or the child has exited and its
\* output is read to the end, whatever the other tasks are doing.
CanProceed(i) ==
    \/ ENABLED io_copy({i})
    \/ ENABLED wait_drops_stdin({i})
    \/ ENABLED read_to_end({i})
    \/ ENABLED ChildStep({i})
    \/ /\ task[i].pc = "read"
       /\ task[i].stdout.buf = <<>>
       /\ task[i].proc.pc = "exited"

\* C12: in every interleaving of the steps of the tasks, what a task has
\* captured is the start of what its own child wrote; the response of a task
\* is built from the whole output of its own child, so that with a child
\* that echoes the request's marker the body of the response is that
\* marker; and a task in flight can always proceed by itself.
C12_NoCrossWiring ==
    \A i \in Tasks :
        /\ IsPrefix(task[i].captured, task[i].proc.written)
        /\ Answered(i)
              => /\ task[i].captured = task[i].proc.written
                 /\ task[i].response = CgiResponse(task[i].proc.written)
                 /\ task[i].response.kind = "cgi"
                 /\ task[i].response.body = BodyOf(i)
        /\ InFlight(i) => CanProceed(i)

\* C12 witness: two requests with different markers were in flight at the
\* same time and each has the response with its own marker.
C12_Witness ==
    /\ Answered(1)
    /\ Answered(2)
    /\ task[1].body = Some(<<"a">>)
    /\ task[2].body = Some(<<"b">>)
    /\ task[1].response.body = <<"a">>
    /\ task[2].response.body = <<"b">>

\* C19: two requests with the same body, whose children run the same program
\* and write the same output, get the same response, status, headers and
\* body, whatever the exit statuses of the two children.
C19_ExitStatusIgnored ==
    \A i, j \in Tasks :
        (/\ Answered(i)
         /\ Answered(j)
         /\ task[i].body = task[j].body
         /\ task[i].program = task[j].program
         /\ task[i].proc.written = task[j].proc.written)
            => task[i].response = task[j].response

\* C19 witness: two children wrote the same output for the same request, one
\* exited with 0 and the other was killed by a signal, and the two responses
\* are one and the same 200.
C19_Witness ==
    /\ Answered(1)
    /\ Answered(2)
    /\ task[1].body = task[2].body
    /\ task[1].proc.written = task[2].proc.written
    /\ task[1].proc.written # <<>>
    /\ task[1].proc.exit = "exit 0"
    /\ task[2].proc.exit = "signal 9"
    /\ task[1].response = task[2].response
    /\ task[1].response.status = 200

====
